---- MODULE Spec2Model ----
(***************************************************************************)
(* Model of static/chat.js: the browser-side conversation controller.      *)
(* One page holds the in-memory session token, the message list            *)
(* (chatMessages), the input field and the suspended submit handlers of    *)
(* the requests in flight; localStorage outlives the page.                 *)
(*                                                                         *)
(* Strings that the code inspects character by character (the input text)  *)
(* are sequences of one-character strings.  An optional value (a JSON      *)
(* field, a storage entry, the token) is a set with at most one element:   *)
(* {} is undefined/null, {v} is the value v.                               *)
(***************************************************************************)
EXTENDS Naturals, Sequences, FiniteSets

VARIABLES sessionId, storage, userInput, chatMessages, pending, nPosts,
          nAccepted, carried, handled, last

vars == <<sessionId, storage, userInput, chatMessages, pending, nPosts,
          nAccepted, carried, handled, last>>

(* ---- bounds ---- *)
MaxSubmits == 2

(* ---- input domains ---- *)
\* values of the input field: empty, whitespace only, and text with
\* whitespace before or after it
Texts == {<<>>, <<" ">>, <<"a">>, <<" ", "a">>, <<"a", " ">>}

\* data-question attributes of the quick-question buttons
QuickQuestions == {<<" ", "a", " ">>, <<" ">>}

SessionIds == {"", "S1", "S2"}
StoredAtStart == {{}, {"S1"}}
Replies == {<<"h", "i">>}
Timestamps == {"09:41 AM"}

Opt(S) == {{}} \cup {{v} : v \in S}

Bodies == [session_id : Opt(SessionIds), response : Opt(Replies),
           timestamp : Opt(Timestamps)]

NoData == [session_id |-> {}, response |-> {}, timestamp |-> {}]

Causes == {"network", "badjson", "nulldata"}

(* ---- pure helpers ---- *)

\* JavaScript truthiness of a string-or-absent value.
Truthy(opt) == opt # {} /\ opt # {""}

IsSpace(c) == c = " "

RECURSIVE TrimStart(_)
TrimStart(s) ==
    IF s # <<>> /\ IsSpace(Head(s)) THEN TrimStart(Tail(s)) ELSE s

\* variant: trailing whitespace is kept
TrimEnd_KeepsTail(s) == s

RECURSIVE TrimEnd(_)
TrimEnd(s) ==
    IF s # <<>> /\ IsSpace(s[Len(s)])
    THEN TrimEnd(SubSeq(s, 1, Len(s) - 1))
    ELSE s

\* variant: the input is used as typed
Trim_Untrimmed(s) == s

\* String.prototype.trim
Trim(s) == TrimEnd(TrimStart(s))

\* variant: the stored token is not read back
loadSession_Forgets(store) == {}

\* let sessionId = localStorage.getItem('chatSessionId') || null
loadSession(store) == IF Truthy(store) THEN store ELSE {}

\* variant: the token is never attached
formData_NoToken(message, sid) == [user_input |-> message, session_id |-> {}]

\* formData: user_input always, session_id only when the token is truthy
formData(message, sid) ==
    [user_input |-> message,
     session_id |-> IF Truthy(sid) THEN sid ELSE {}]

\* variant: a token already held is never replaced
storeSessionId_FirstWins(sid, data) ==
    IF Truthy(sid) THEN sid
    ELSE IF Truthy(data.session_id) THEN data.session_id ELSE sid

\* variant: the token is assigned from the body unconditionally
storeSessionId_Unconditional(sid, data) == data.session_id

\* if (data.session_id) { sessionId = data.session_id; ... }
storeSessionId(sid, data) ==
    IF Truthy(data.session_id) THEN data.session_id ELSE sid

ApologyText ==
    <<"S", "o", "r", "r", "y", ",", " ", "I", " ", "e", "n", "c", "o", "u",
      "n", "t", "e", "r", "e", "d", " ", "a", "n", " ", "e", "r", "r", "o",
      "r", ".", " ", "P", "l", "e", "a", "s", "e", " ", "t", "r", "y", " ",
      "a", "g", "a", "i", "n", ".">>

\* marked.parse: the markup of a paragraph of text
markedParse(text) == <<"<p>">> \o text \o <<"</p>">>

\* marked.parse throws on an undefined input (data.response missing)
markedThrows(textOpt) == textOpt = {}

getCurrentTime == "now"

\* timestamp || getCurrentTime()
messageTime(tsOpt) ==
    IF Truthy(tsOpt) THEN CHOOSE t \in tsOpt : TRUE ELSE getCurrentTime

\* variant: every bubble is rendered through the markup renderer
messageDiv_AlwaysMarkup(text, sender, tsOpt, req) ==
    [cls     |-> sender,
     how     |-> "innerHTML",
     content |-> markedParse(text),
     time    |-> messageTime(tsOpt),
     req     |-> req]

\* The node addMessage builds.  req is bookkeeping: the request the bubble
\* was rendered for.
messageDiv(text, sender, tsOpt, req) ==
    [cls     |-> sender,
     how     |-> IF sender = "bot" THEN "innerHTML" ELSE "textContent",
     content |-> IF sender = "bot" THEN markedParse(text) ELSE text,
     time    |-> messageTime(tsOpt),
     req     |-> req]

addMessage(msgs, text, sender, tsOpt, req) ==
    Append(msgs, messageDiv(text, sender, tsOpt, req))

typingDiv(req) ==
    [cls |-> "typing", how |-> "innerHTML", content |-> <<>>,
     time |-> "", req |-> req]

showTypingIndicator(msgs, req) == Append(msgs, typingDiv(req))

IsTyping(node) == node.cls = "typing"

\* document.getElementById('typing-indicator'): the first such node, 0 if none
FirstTyping(msgs) ==
    IF \E i \in 1..Len(msgs) : IsTyping(msgs[i])
    THEN CHOOSE i \in 1..Len(msgs) :
            /\ IsTyping(msgs[i])
            /\ \A j \in 1..(i - 1) : ~IsTyping(msgs[j])
    ELSE 0

\* variant: the first child of the list is removed, whatever it is
removeTypingIndicator_FirstChild(msgs) ==
    IF msgs = <<>> THEN msgs ELSE Tail(msgs)

removeTypingIndicator(msgs) ==
    LET i == FirstTyping(msgs)
    IN  IF i = 0 THEN msgs
        ELSE SubSeq(msgs, 1, i - 1) \o SubSeq(msgs, i + 1, Len(msgs))

(* ---- the handlers as straight-line programs ---- *)
(* A handler run is a sequence of statements executed in order on the page *)
(* state; between two awaits nothing else runs.  c holds the run's inputs: *)
(* the trimmed message, the parsed body and the request concerned.         *)

\* variant: the handler works on a token of its own, not the page's
PageState_OwnToken(sid, store, input, msgs, reqs, posts) ==
    [sessionId |-> {}, storage |-> store, userInput |-> input,
     chatMessages |-> msgs, pending |-> reqs, posts |-> posts, form |-> {}]

PageState(sid, store, input, msgs, reqs, posts) ==
    [sessionId |-> sid, storage |-> store, userInput |-> input,
     chatMessages |-> msgs, pending |-> reqs, posts |-> posts, form |-> {}]

Context(message, data, req) == [message |-> message, data |-> data, req |-> req]

\* variant: the token is kept in memory only
setItem_Skipped(store, sid, data) == store

\* localStorage.setItem('chatSessionId', sessionId), inside the same if
setItem(store, sid, data) ==
    IF Truthy(data.session_id) THEN sid ELSE store

Exec(op, st, c) ==
    CASE op = "addMessage(user)" ->
            [st EXCEPT !.chatMessages = addMessage(@, c.message, "user", {}, c.req)]
      [] op = "userInput.value=''" ->
            [st EXCEPT !.userInput = <<>>]
      [] op = "showTypingIndicator" ->
            [st EXCEPT !.chatMessages = showTypingIndicator(@, c.req)]
      [] op = "formData" ->
            [st EXCEPT !.form = {formData(c.message, st.sessionId)}]
      [] op = "fetch" ->
            [st EXCEPT !.pending = @ \cup
                {[id |-> c.req, body |-> b, stage |-> "fetch", ok |-> TRUE]
                    : b \in st.form},
                       !.posts = @ + 1]
      [] op = "storeSessionId" ->
            LET sid == storeSessionId(st.sessionId, c.data)
            IN  [st EXCEPT !.sessionId = sid,
                           !.storage = setItem(@, sid, c.data)]
      [] op = "removeTypingIndicator" ->
            [st EXCEPT !.chatMessages = removeTypingIndicator(@)]
      [] op = "addMessage(bot)" ->
            [st EXCEPT !.chatMessages =
                addMessage(@, CHOOSE t \in c.data.response : TRUE, "bot",
                           c.data.timestamp, c.req)]
      [] op = "addMessage(apology)" ->
            [st EXCEPT !.chatMessages = addMessage(@, ApologyText, "bot", {}, c.req)]
      [] OTHER -> st

RECURSIVE Run(_, _, _)
Run(prog, st, c) ==
    IF prog = <<>> THEN st ELSE Run(Tail(prog), Exec(Head(prog), st, c), c)

\* variant: the request is built and sent before anything is rendered
submitBlock_FetchFirst ==
    <<"formData", "fetch", "addMessage(user)", "userInput.value=''",
      "showTypingIndicator">>

\* lines 23-44: the statements of an accepted submit
submitBlock ==
    <<"addMessage(user)", "userInput.value=''", "showTypingIndicator",
      "formData", "fetch">>

\* variant: the error is logged but no apology is rendered
catchBlock_Silent == <<"console.error", "removeTypingIndicator">>

\* variant: the failed request is sent again from the catch block
catchBlock_Retry ==
    <<"console.error", "removeTypingIndicator", "addMessage(apology)",
      "formData", "fetch">>

\* variant: the apology is rendered before the indicator is removed
catchBlock_AppendFirst ==
    <<"console.error", "addMessage(apology)", "removeTypingIndicator">>

\* lines 60-64
catchBlock == <<"console.error", "removeTypingIndicator", "addMessage(apology)">>

\* lines 46-58 for a parsed body; addMessage throws inside marked.parse
\* before it has appended anything, and control passes to the catch block
tryBlock(data) ==
    <<"storeSessionId", "removeTypingIndicator">>
    \o (IF markedThrows(data.response)
        THEN <<"throw">> \o catchBlock
        ELSE <<"addMessage(bot)">>)

\* What the most recent handler run did: its name, the input value it read,
\* the request concerned, that request's HTTP status class, the parsed body
\* and the statements it executed in order.
Event(h, input, req, ok, data, effects) ==
    [handler |-> h, input |-> input, req |-> req, ok |-> ok, data |-> data,
     effects |-> effects]

(* ---- initial state: DOMContentLoaded on the first page load ---- *)
Init ==
    /\ storage \in StoredAtStart
    /\ sessionId = loadSession(storage)
    /\ userInput = <<>>
    /\ chatMessages = <<>>
    /\ pending = {}
    /\ nPosts = 0
    /\ nAccepted = 0
    /\ carried = {}
    /\ handled = <<>>
    /\ last = Event("load", <<>>, 0, TRUE, NoData, <<>>)

\* the page state after running prog
Commit(st) ==
    /\ sessionId' = st.sessionId
    /\ storage' = st.storage
    /\ userInput' = st.userInput
    /\ chatMessages' = st.chatMessages
    /\ pending' = st.pending
    /\ nPosts' = st.posts

(* ---- the submit handler up to its first await, on input value v ---- *)
submitHandler(h, v) ==
    LET message == Trim(v)
        id == nAccepted + 1
        st == PageState(sessionId, storage, v, chatMessages, pending, nPosts)
    IN  IF message = <<>>
        THEN /\ Commit(st)
             /\ UNCHANGED <<nAccepted, carried, handled>>
             /\ last' = Event(h, v, 0, TRUE, NoData, <<>>)
        ELSE /\ nAccepted < MaxSubmits
             /\ Commit(Run(submitBlock, st, Context(message, NoData, id)))
             /\ nAccepted' = id
             /\ UNCHANGED <<carried, handled>>
             /\ last' = Event(h, v, id, TRUE, NoData, submitBlock)

\* the user edits the input field
Input(t) ==
    /\ userInput' = t
    /\ last' = Event("input", t, 0, TRUE, NoData, <<>>)
    /\ UNCHANGED <<sessionId, storage, chatMessages, pending, nPosts,
                   nAccepted, carried, handled>>

\* the form's submit event (send button, or Enter without Shift)
Submit == submitHandler("submit", userInput)

\* variant: the click dispatches submit without filling the input field
QuickQuestion_NoFill(q) == submitHandler("quick", userInput)

\* click on a quick-question button
QuickQuestion(q) == submitHandler("quick", q)

\* fetch resolves with a response of either HTTP status class
FetchResolve(r, ok) ==
    /\ r \in pending
    /\ r.stage = "fetch"
    /\ pending' = (pending \ {r}) \cup {[r EXCEPT !.stage = "json", !.ok = ok]}
    /\ last' = Event("fetched", <<>>, r.id, ok, NoData, <<>>)
    /\ UNCHANGED <<sessionId, storage, userInput, chatMessages, nPosts,
                   nAccepted, carried, handled>>

\* fetch rejects, response.json() rejects, or the body is the JSON null
\* (reading data.session_id throws): the catch block runs
Failure(r, cause) ==
    /\ r \in pending
    /\ IF cause = "network" THEN r.stage = "fetch" ELSE r.stage = "json"
    /\ Commit(Run(catchBlock,
                  PageState(sessionId, storage, userInput, chatMessages,
                            pending \ {r}, nPosts),
                  Context(<<>>, NoData, r.id)))
    /\ last' = Event("failure", <<>>, r.id, r.ok, NoData, catchBlock)
    /\ UNCHANGED <<nAccepted, carried, handled>>

\* response.json() resolves with an object
Response(r, data) ==
    /\ r \in pending
    /\ r.stage = "json"
    /\ Commit(Run(tryBlock(data),
                  PageState(sessionId, storage, userInput, chatMessages,
                            pending \ {r}, nPosts),
                  Context(<<>>, data, r.id)))
    /\ carried' = IF data.session_id # {} THEN data.session_id ELSE carried
    /\ handled' = IF data.session_id = {} THEN handled
                  ELSE Append(handled,
                         [req |-> r.id, session_id |-> data.session_id,
                          others |-> {p.id : p \in pending \ {r}}])
    /\ last' = Event("response", <<>>, r.id, r.ok, data, tryBlock(data))
    /\ UNCHANGED nAccepted

\* the page is reloaded: a new document, the suspended handlers are gone
Reload ==
    /\ sessionId' = loadSession(storage)
    /\ userInput' = <<>>
    /\ chatMessages' = <<>>
    /\ pending' = {}
    /\ handled' = <<>>
    /\ last' = Event("load", <<>>, 0, TRUE, NoData, <<>>)
    /\ UNCHANGED <<storage, nPosts, nAccepted, carried>>

Next ==
    \/ \E t \in Texts : Input(t)
    \/ Submit
    \/ \E q \in QuickQuestions : QuickQuestion(q)
    \/ \E r \in pending, ok \in BOOLEAN : FetchResolve(r, ok)
    \/ \E r \in pending, cause \in Causes : Failure(r, cause)
    \/ \E r \in pending, data \in Bodies : Response(r, data)
    \/ Reload

Spec == Init /\ [][Next]_vars

(* ======================= properties ======================= *)

IsSubmitRun(e) == e.handler \in {"submit", "quick"}

\* the request a submit run has just sent, as a set (empty if none)
SentBy(e, reqs) == {r \in reqs : r.id = e.req}

Bubbles(msgs, sender) == SelectSeq(msgs, LAMBDA n : n.cls = sender)

TypingCount(msgs) == Cardinality({i \in 1..Len(msgs) : IsTyping(msgs[i])})

Spaces(n) == [i \in 1..n |-> " "]

\* u is t without its leading and trailing whitespace
IsTrimOf(u, t) ==
    /\ u = <<>> \/ (u[1] # " " /\ u[Len(u)] # " ")
    /\ \E i, j \in 0..Len(t) : t = Spaces(i) \o u \o Spaces(j)

C2_OmittedKeepsToken ==
    [][ /\ (last'.handler = "response" /\ last'.data.session_id = {})
            => (sessionId' = sessionId /\ storage' = storage)
        /\ (IsSubmitRun(last') /\ last'.req # 0)
            => /\ SentBy(last', pending') # {}
               /\ \A r \in SentBy(last', pending') :
                      r.body.session_id = sessionId ]_vars

\* a response without session_id has been handled while S2 was held
C2_Witness ==
    /\ last.handler = "response"
    /\ last.data.session_id = {}
    /\ sessionId = {"S2"}
    /\ storage = {"S2"}

\* C3: a submit whose input is non-empty after trimming appends exactly one
\* user bubble, showing the trimmed input as literal text, and the bubble of
\* every request is in the transcript for as long as the request is pending.
C3_UserBubbleOnSubmit ==
    [][ /\ (IsSubmitRun(last') /\ ~IsTrimOf(<<>>, last'.input))
            => \E n \in {chatMessages'[i] : i \in 1..Len(chatMessages')} :
                  /\ Bubbles(chatMessages', "user")
                        = Append(Bubbles(chatMessages, "user"), n)
                  /\ IsTrimOf(n.content, last'.input)
                  /\ n.how = "textContent"
        /\ \A r \in pending' :
              Cardinality({i \in 1..Len(chatMessages') :
                  /\ chatMessages'[i].cls = "user"
                  /\ chatMessages'[i].req = r.id
                  /\ chatMessages'[i].content = r.body.user_input}) = 1 ]_vars

\* the preset " a " has been submitted and shows as the bubble "a"
C3_Witness ==
    /\ last.handler = "quick"
    /\ last.input = <<" ", "a", " ">>
    /\ Len(chatMessages) >= 2
    /\ chatMessages[Len(chatMessages) - 1].cls = "user"
    /\ chatMessages[Len(chatMessages) - 1].content = <<"a">>
    /\ \E r \in pending : r.id = last.req

\* C4: a submit whose input is empty or only whitespace changes nothing: no
\* bubble, no typing indicator, no request, token and storage untouched.
C4_EmptySubmitNoOp ==
    [][ (IsSubmitRun(last') /\ IsTrimOf(<<>>, last'.input))
            => /\ chatMessages' = chatMessages
               /\ pending' = pending
               /\ nPosts' = nPosts
               /\ sessionId' = sessionId
               /\ storage' = storage ]_vars

\* a whitespace-only submit while a request is in flight
C4_Witness ==
    /\ last.handler = "submit"
    /\ last.input = <<" ">>
    /\ pending # {}
    /\ TypingCount(chatMessages) = 1
    /\ nPosts = 1

IsApology(n) ==
    /\ n.cls = "bot"
    /\ n.how = "innerHTML"
    /\ n.content = <<"<p>">> \o ApologyText \o <<"</p>">>

\* the bot bubbles after the step are those before it plus one apology
ApologyAppended(before, after) ==
    \E n \in {after[i] : i \in 1..Len(after)} :
        /\ IsApology(n)
        /\ Bubbles(after, "bot") = Append(Bubbles(before, "bot"), n)

\* C5: handling a rejected fetch or an unparsable body appends exactly one
\* apology bubble and leaves no typing-indicator placeholder in the list.
C5_Original ==
    [][ last'.handler = "failure"
            => /\ ApologyAppended(chatMessages, chatMessages')
               /\ TypingCount(chatMessages') = 0 ]_vars

\* C6: a response with a non-2xx status is handled like a transport failure,
\* whatever its body: one apology bubble, a typing indicator removed, token
\* and storage as before.
C6_Original ==
    [][ (last'.handler \in {"response", "failure"} /\ ~last'.ok)
            => /\ ApologyAppended(chatMessages, chatMessages')
               /\ TypingCount(chatMessages') < TypingCount(chatMessages)
               /\ sessionId' = sessionId
               /\ storage' = storage ]_vars

\* C7: the message list never holds more than one typing-indicator
\* placeholder.
C7_Original == TypingCount(chatMessages) <= 1

IsAppend(op) == op \in {"addMessage(bot)", "addMessage(apology)"}

\* C8: when a response or failure is handled, removeTypingIndicator has run
\* before the reply or apology bubble is appended, and whenever no request is
\* in flight the list holds no typing-indicator placeholder.
C8_NoStaleTyping ==
    /\ last.handler \in {"response", "failure"}
          => /\ \E i \in 1..Len(last.effects) : IsAppend(last.effects[i])
             /\ \A i \in 1..Len(last.effects) :
                   IsAppend(last.effects[i])
                      => \E j \in 1..(i - 1) :
                            last.effects[j] = "removeTypingIndicator"
    /\ pending = {} => TypingCount(chatMessages) = 0

\* the only request failed: its apology is the last bubble, nothing is left
\* typing
C8_Witness ==
    /\ last.handler = "failure"
    /\ pending = {}
    /\ Len(chatMessages) = 2
    /\ IsApology(chatMessages[2])

\* C9 as stated: a session_id present in a parsed response, whatever string
\* it is, becomes the token in memory and in storage; the two always agree.
C9_Original ==
    /\ (last.handler = "response" /\ last.data.session_id # {})
          => /\ sessionId = last.data.session_id
             /\ storage = last.data.session_id
    /\ sessionId = storage

\* C9 (amended): a non-empty session_id in a parsed response becomes the
\* token in memory and in storage, overwriting the prior value; an empty one
\* stores nothing; the in-memory token and the storage entry always agree.
C9_TokenMirrorsStorage ==
    /\ (last.handler = "response" /\ Truthy(last.data.session_id))
          => /\ sessionId = last.data.session_id
             /\ storage = last.data.session_id
    /\ sessionId = storage

\* S2 has overwritten S1 while a request sent with S1 is still in flight
C9_Witness ==
    /\ last.handler = "response"
    /\ last.data.session_id = {"S2"}
    /\ sessionId = {"S2"}
    /\ storage = {"S2"}
    /\ \E r \in pending : r.body.session_id = {"S1"}

\* C10: a (re)load leaves storage as it is and sets the token to the stored
\* value (unset if there is none); the first accepted submit of a page sends
\* the stored token; no step removes a stored token.
C10_TokenSurvivesReload ==
    [][ /\ last'.handler = "load"
            => (storage' = storage /\ sessionId' = storage)
        /\ (IsSubmitRun(last') /\ last'.req # 0 /\ chatMessages = <<>>)
            => /\ SentBy(last', pending') # {}
               /\ \A r \in SentBy(last', pending') :
                     r.body.session_id = storage
        /\ storage # {} => storage' # {} ]_vars

\* S2 was received, the page reloaded, and the first submit of the new page
\* sent S2
C10_Witness ==
    /\ IsSubmitRun(last)
    /\ nPosts = 2
    /\ Len(chatMessages) = 2
    /\ storage = {"S2"}
    /\ \E r \in SentBy(last, pending) : r.body.session_id = {"S2"}

\* C11: the number of POST requests sent always equals the number of
\* accepted submissions; handling a failure sends nothing and only retires
\* the failed request; and after a failure a non-empty submit is accepted
\* again (as long as the model's cap on submissions is not reached).
C11_NoRetry ==
    /\ [](nPosts = nAccepted)
    /\ []((last.handler = "failure" /\ nAccepted < MaxSubmits)
            => ENABLED (QuickQuestion(<<" ", "a", " ">>)
                        /\ nAccepted' = nAccepted + 1))
    /\ [][ last'.handler = "failure"
              => /\ nPosts' = nPosts
                 /\ pending' \subseteq pending
                 /\ Cardinality(pending') = Cardinality(pending) - 1 ]_vars

\* the first request failed; one request was sent for the one submission
C11_Witness ==
    /\ last.handler = "failure"
    /\ nAccepted = 1
    /\ nPosts = 1
    /\ pending = {}

Nodes(msgs) == {msgs[i] : i \in 1..Len(msgs)}

\* the texts that reach the message list from the user
UserTexts == {Trim(t) : t \in Texts \cup QuickQuestions}

\* what the markup renderer produces for a text
IsMarkupOf(html, text) == html = <<"<p>">> \o text \o <<"</p>">>

\* C12: every user bubble shows its text through textContent, unconverted;
\* every bot bubble, the apology included, is the markup the renderer made
\* of a server reply or of the apology text, set through innerHTML; the
\* renderer's input is never a text the user entered.
C12_UserTextLiteral ==
    \A n \in Nodes(chatMessages) :
        /\ n.cls = "user"
              => (n.how = "textContent" /\ n.content \in UserTexts)
        /\ n.cls = "bot"
              => /\ n.how = "innerHTML"
                 /\ \E t \in Replies \cup {ApologyText} :
                       IsMarkupOf(n.content, t)

\* a transcript holding a user bubble, a rendered reply and an apology
C12_Witness ==
    /\ \E n \in Nodes(chatMessages) : n.cls = "user" /\ n.content = <<"a">>
    /\ \E n \in Nodes(chatMessages) :
          n.cls = "bot" /\ IsMarkupOf(n.content, <<"h", "i">>)
    /\ \E n \in Nodes(chatMessages) :
          n.cls = "bot" /\ IsMarkupOf(n.content, ApologyText)

\* the message bubbles of the list, in order, without the placeholders
Transcript(msgs) == SelectSeq(msgs, LAMBDA n : ~IsTyping(n))

IsPrefix(s, t) == Len(s) <= Len(t) /\ SubSeq(t, 1, Len(s)) = s

\* C13: within a page, every handler run leaves the bubbles rendered so far
\* as they are (text, sender, timestamp, order) and only appends to them;
\* rendering a reply or an apology appends exactly one bubble; a node that
\* disappears from the list is a typing-indicator placeholder.
C13_AppendOnly ==
    [][ last'.handler # "load"
          => /\ IsPrefix(Transcript(chatMessages), Transcript(chatMessages'))
             /\ last'.handler \in {"response", "failure"}
                   => /\ Len(Transcript(chatMessages'))
                            = Len(Transcript(chatMessages)) + 1
                      /\ Bubbles(chatMessages', "user")
                            = Bubbles(chatMessages, "user")
             /\ Len(chatMessages') < Len(chatMessages)
                   => TypingCount(chatMessages') < TypingCount(chatMessages) ]_vars

\* a reply with a server timestamp was rendered after two user bubbles and
\* an earlier apology
C13_Witness ==
    /\ last.handler = "response"
    /\ Len(Transcript(chatMessages)) = 4
    /\ Transcript(chatMessages)[1].cls = "user"
    /\ Transcript(chatMessages)[2].cls = "user"
    /\ IsApology(Transcript(chatMessages)[3])
    /\ Transcript(chatMessages)[4].time = "09:41 AM"

\* What invoking submit on the input value v does to the page, stated on the
\* step itself: nothing but the field holding v when v trims to nothing;
\* otherwise the user bubble of the trimmed text and a placeholder are
\* appended, the field is cleared and one request carrying the trimmed text
\* and the held token joins the requests in flight.
SubmitOutcome(v) ==
    /\ last'.input = v
    /\ sessionId' = sessionId
    /\ storage' = storage
    /\ IF IsTrimOf(<<>>, v)
       THEN /\ userInput' = v
            /\ chatMessages' = chatMessages
            /\ pending' = pending
            /\ nPosts' = nPosts
       ELSE \E u \in UserTexts :
            /\ IsTrimOf(u, v)
            /\ userInput' = <<>>
            /\ nPosts' = nPosts + 1
            /\ Len(chatMessages') = Len(chatMessages) + 2
            /\ SubSeq(chatMessages', 1, Len(chatMessages)) = chatMessages
            /\ LET bubble == chatMessages'[Len(chatMessages) + 1]
                   typing == chatMessages'[Len(chatMessages) + 2]
               IN  /\ bubble.cls = "user"
                   /\ bubble.how = "textContent"
                   /\ bubble.content = u
                   /\ bubble.time = "now"
                   /\ typing.cls = "typing"
            /\ \E r \in pending' \ pending :
                  /\ pending' = pending \cup {r}
                  /\ r.body.user_input = u
                  /\ r.body.session_id = sessionId
                  /\ r.stage = "fetch"

\* C14: a quick-question click has the outcome of submit invoked on an input
\* field holding the button's preset, and a submit event has that outcome
\* for the value the field holds: the same bubble, placeholder, payload and
\* resulting state for the same value, a no-op when the value trims to
\* nothing.
C14_QuickIsSubmit ==
    [][ /\ last'.handler = "submit" => SubmitOutcome(userInput)
        /\ last'.handler = "quick"
              => \E q \in QuickQuestions : SubmitOutcome(q) ]_vars

\* the preset " a " was clicked while the token S1 was held and another text
\* was in the field: the request carries "a" and S1, the field is cleared
C14_Witness ==
    /\ last.handler = "quick"
    /\ last.input = <<" ", "a", " ">>
    /\ userInput = <<>>
    /\ \E r \in SentBy(last, pending) :
          r.body = [user_input |-> <<"a">>, session_id |-> {"S1"}]

\* the positions of statement op in a run
Pos(op, effects) == {i \in 1..Len(effects) : effects[i] = op}

\* op1 ran exactly once, and before every run of op2
RanBefore(op1, op2, effects) ==
    /\ Cardinality(Pos(op1, effects)) = 1
    /\ \A i \in Pos(op1, effects), j \in Pos(op2, effects) : i < j

\* C15: an accepted submit renders the user bubble, then clears the field,
\* then renders the placeholder, then builds the payload, then posts it; the
\* request goes out with its bubble and placeholder as the last two nodes
\* of the list and carrying the token held when submit ran; a payload in
\* flight never changes, and nothing but an accepted submit sends a request.
C15_SubmitOrder ==
    [][ /\ (IsSubmitRun(last') /\ last'.req # 0)
           => /\ RanBefore("addMessage(user)", "userInput.value=''", last'.effects)
              /\ RanBefore("userInput.value=''", "showTypingIndicator", last'.effects)
              /\ RanBefore("showTypingIndicator", "formData", last'.effects)
              /\ RanBefore("formData", "fetch", last'.effects)
              /\ Cardinality(Pos("fetch", last'.effects)) = 1
              /\ Len(chatMessages') >= 2
              /\ LET n == Len(chatMessages')
                 IN  /\ chatMessages'[n - 1].cls = "user"
                     /\ chatMessages'[n - 1].req = last'.req
                     /\ IsTyping(chatMessages'[n])
                     /\ chatMessages'[n].req = last'.req
              /\ \E r \in SentBy(last', pending') :
                    /\ r \notin pending
                    /\ r.body.session_id = sessionId
                    /\ r.body.user_input = chatMessages'[Len(chatMessages') - 1].content
        /\ \A r \in pending, p \in pending' : r.id = p.id => p.body = r.body
        /\ nPosts' # nPosts => (IsSubmitRun(last') /\ last'.req # 0) ]_vars

\* a request sent with S1 is still in flight after a later response has
\* replaced the token by S2
C15_Witness ==
    /\ sessionId = {"S2"}
    /\ storage = {"S2"}
    /\ \E r \in pending : r.body.session_id = {"S1"}
    /\ \E i \in 1..Len(handled) : handled[i].session_id = {"S2"}

\* the last two responses that carried a session_id belong to requests that
\* were in flight together and carried different values
TwoOverlapping ==
    /\ Len(handled) >= 2
    /\ handled[Len(handled)].req \in handled[Len(handled) - 1].others
    /\ handled[Len(handled)].session_id # handled[Len(handled) - 1].session_id

\* C16 as stated: after two overlapping requests whose responses carried
\* different session_id values, token and storage hold the value of the
\* response handled last, whichever request was submitted first.
C16_Original ==
    TwoOverlapping
       => /\ sessionId = handled[Len(handled)].session_id
          /\ storage = handled[Len(handled)].session_id

\* C16 (amended): the same when the value handled last is non-empty.
C16_LastHandledWins ==
    (TwoOverlapping /\ Truthy(handled[Len(handled)].session_id))
       => /\ sessionId = handled[Len(handled)].session_id
          /\ storage = handled[Len(handled)].session_id

\* the response to the second submission was handled first with S1, the
\* response to the first submission last with S2: S2 is held
C16_Witness ==
    /\ Len(handled) = 2
    /\ handled[1].req = 2
    /\ handled[1].session_id = {"S1"}
    /\ handled[1].others = {1}
    /\ handled[2].req = 1
    /\ handled[2].session_id = {"S2"}
    /\ sessionId = {"S2"}
    /\ storage = {"S2"}

\* C17: only the continuation that handles a parsed response writes the
\* token or its storage entry: editing the field, a submit (accepted or
\* empty, typed or quick), the arrival of the response headers and the
\* handling of a failed request leave both as they were.
C17_OnlyResponseWrites ==
    [][ last'.handler \in {"input", "submit", "quick", "fetched", "failure"}
           => (sessionId' = sessionId /\ storage' = storage) ]_vars

\* the fetch of a request was rejected while S1 was held and stored
C17_Witness ==
    /\ last.handler = "failure"
    /\ \E n \in Nodes(chatMessages) : IsApology(n)
    /\ sessionId = {"S1"}
    /\ storage = {"S1"}

\* positions of the bot bubbles rendered for request id
BotPos(msgs, id) ==
    {i \in 1..Len(msgs) : msgs[i].cls = "bot" /\ msgs[i].req = id}

InFlight(reqs) == {r.id : r \in reqs}

\* C18: a submission whose request is still in flight has no bot bubble; one
\* whose request has been handled has exactly one, a reply or an apology,
\* placed after the submission's user bubble; and the step that handles a
\* request (a parsed body, one that cannot be rendered, or a failure) is the
\* step that appends that one bubble.
C18_OneBotBubble ==
    /\ [](\A i \in 1..Len(chatMessages) :
             chatMessages[i].cls = "user"
                => IF chatMessages[i].req \in InFlight(pending)
                   THEN BotPos(chatMessages, chatMessages[i].req) = {}
                   ELSE /\ Cardinality(BotPos(chatMessages, chatMessages[i].req)) = 1
                        /\ \A j \in BotPos(chatMessages, chatMessages[i].req) : i < j)
    /\ [][ last'.handler \in {"response", "failure"}
              => /\ BotPos(chatMessages, last'.req) = {}
                 /\ Cardinality(BotPos(chatMessages', last'.req)) = 1
                 /\ last'.req \notin InFlight(pending') ]_vars

\* the reply could not be rendered after the indicator was removed: the
\* submission has its apology bubble, and only that
C18_Witness ==
    /\ last.handler = "response"
    /\ last.data.response = {}
    /\ Cardinality(Pos("removeTypingIndicator", last.effects)) = 2
    /\ Cardinality(BotPos(chatMessages, last.req)) = 1
    /\ \A j \in BotPos(chatMessages, last.req) : IsApology(chatMessages[j])
    /\ \E i \in 1..Len(chatMessages) :
          /\ chatMessages[i].cls = "user"
          /\ chatMessages[i].req = last.req
          /\ \A j \in BotPos(chatMessages, last.req) : i < j

\* C19: the list holds as many typing-indicator placeholders as there are
\* requests in flight, and every request in flight still has the placeholder
\* that was rendered for it.
C19_Original ==
    /\ TypingCount(chatMessages) = Cardinality(pending)
    /\ \A r \in pending :
          \E n \in Nodes(chatMessages) : IsTyping(n) /\ n.req = r.id

====
